---- MODULE Spec2Model ----
(***************************************************************************)
(* Model of src/main.py: the user store (sqlite table `users`), the three  *)
(* JSON endpoints /verify, /register, /login, the /health probe, and the   *)
(* NewsVerifier (article fetcher + similarity scorer).                     *)
(*                                                                         *)
(* Text values are sequences of one-character strings, so that str.strip() *)
(* and hashing are computed rather than assumed.  Similarities are fixed-  *)
(* point numbers in units of 1/SCALE; confidences are in hundredths.       *)
(***************************************************************************)
EXTENDS Integers, Sequences, FiniteSets, TLC

VARIABLES
    users,        \* the rows of table `users`, in insertion order
    api_key,      \* whether NEWS_API_KEY is configured (module global)
    req,          \* the request most recently handled
    resp,         \* the response to it
    outbound,     \* outbound provider attempts made while handling req
    registered,   \* history: <<name, email, password>> as sent in each successful register
    pc,           \* concurrent registers: position of each request
    preq,         \* concurrent registers: the request of each process
    presp,        \* concurrent registers: the response of each process
    staged,       \* concurrent registers: inserted but uncommitted row of each process
    writer,       \* concurrent registers: holder of the sqlite write lock (0 = free)
    s_articles,   \* scorer: the article list handed to the scorer
    s_tfidf,      \* scorer: outcome of fit_transform / cosine_similarity
    s_result      \* scorer: the result dictionary

vars == <<users, api_key, req, resp, outbound, registered,
          pc, preq, presp, staged, writer, s_articles, s_tfidf, s_result>>

userVars == <<users, api_key, req, resp, outbound, registered>>
concVars == <<pc, preq, presp, staged, writer>>
scoreVars == <<s_articles, s_tfidf, s_result>>

----------------------------------------------------------------------------
(* Bounds *)

MaxUsers == 2       \* rows the table may hold before register is no longer explored
MaxItems == 2       \* items in one provider response
MaxProcs == 2       \* concurrent register requests
MaxArticles == 3    \* article-list length explored for the scorer
SCALE == 10000      \* fixed-point resolution of a similarity (1.0 = SCALE)

(* Program constants *)

DefaultUsage == 5   \* usage_count INTEGER DEFAULT 5
SourceCap == 3      \* articles[:3]
HTTP_OK == 200
HTTP_BAD_REQUEST == 400

----------------------------------------------------------------------------
(* Text *)

WS == " "

\* str.strip(): drop leading and trailing whitespace
RECURSIVE lstrip(_)
lstrip(s) == IF s # <<>> /\ Head(s) = WS THEN lstrip(Tail(s)) ELSE s

RECURSIVE rstrip(_)
rstrip(s) == IF s # <<>> /\ s[Len(s)] = WS THEN rstrip(SubSeq(s, 1, Len(s) - 1)) ELSE s

strip(s) == rstrip(lstrip(s))

\* a digest that keeps nothing of its input, so that all passwords collide
hash_password_weak(password) == <<"sha256">>

\* hashlib.sha256(password.encode()).hexdigest(): a digest, distinct from the
\* plaintext, equal for equal inputs and (collision resistance) for no others
hash_password(password) == <<"sha256">> \o password

\* dict.get(key, default)
Get(data, key, default) == IF key \in DOMAIN data THEN data[key] ELSE default

\* JSON objects over the given keys: every subset of the keys may be present
Bodies(keys, vals) ==
    UNION { { d \in [K -> UNION { vals[k] : k \in keys }] :
                \A k \in K : d[k] \in vals[k] } : K \in SUBSET keys }

NameInputs == { <<>>, <<" ">>, <<"n">>, <<"m">> }
EmailInputs == { <<>>, <<"e">>, <<" ", "e">>, <<"f">>, <<"g">> }
PasswordInputs == { <<>>, <<" ">>, <<"p">>, <<"p", " ">>, <<"q">> }
ClaimInputs == { <<>>, <<" ">>, <<"c">>, <<"c", " ">> }

RegisterBodies ==
    Bodies({"name", "email", "password"},
           [name |-> NameInputs, email |-> EmailInputs, password |-> PasswordInputs])

LoginBodies ==
    Bodies({"email", "password"}, [email |-> EmailInputs, password |-> PasswordInputs])

VerifyBodies == Bodies({"claim"}, [claim |-> ClaimInputs])

\* no request is being handled
Idle == [kind |-> "none"]

\* request.get_json(): None when no body was supplied
NoBody == [has_body |-> FALSE, data |-> <<>>]
WithBody(d) == [has_body |-> TRUE, data |-> d]

\* `not data`: None and the empty object are both falsy
Falsy(body) == ~body.has_body \/ DOMAIN body.data = {}

----------------------------------------------------------------------------
(* User store *)

\* CREATE TABLE users: columns in SELECT * order are
\* (id, name, email, password_hash, subscription, usage_count, created_at,
\* last_reset); the two dates are written by the defaults and read by nothing
NewRow(tbl, name, email, password_hash) ==
    [id |-> Len(tbl) + 1, name |-> name, email |-> email,
     password_hash |-> password_hash,
     subscription |-> "Free", usage_count |-> DefaultUsage]

\* a table whose email column is not declared UNIQUE
EmailTaken_never(tbl, email) == FALSE

\* the UNIQUE constraint on column email
EmailTaken(tbl, email) == \E i \in 1..Len(tbl) : tbl[i].email = email

\* SELECT * FROM users WHERE email=? ; fetchone()
get_user(tbl, email) ==
    IF \E i \in 1..Len(tbl) : tbl[i].email = email
    THEN [found |-> TRUE,
          row |-> tbl[CHOOSE i \in 1..Len(tbl) :
                        /\ tbl[i].email = email
                        /\ \A j \in 1..Len(tbl) : tbl[j].email = email => i <= j]]
    ELSE [found |-> FALSE]

\* INSERT OR IGNORE: a duplicate is dropped silently and success is reported
create_user_ignore(tbl, name, email, password) ==
    IF \E i \in 1..Len(tbl) : tbl[i].email = email
    THEN [ok |-> TRUE, users |-> tbl]
    ELSE [ok |-> TRUE,
          users |-> Append(tbl, [id |-> Len(tbl) + 1, name |-> name, email |-> email,
                                 password_hash |-> <<"sha256">> \o password,
                                 subscription |-> "Free", usage_count |-> 5])]

\* INSERT OR REPLACE: a duplicate overwrites the name and hash of the old row
create_user_upsert(tbl, name, email, password) ==
    IF \E i \in 1..Len(tbl) : tbl[i].email = email
    THEN [ok |-> FALSE,
          users |-> [i \in 1..Len(tbl) |->
                       IF tbl[i].email = email
                       THEN [tbl[i] EXCEPT !.name = name,
                                           !.password_hash = <<"sha256">> \o password]
                       ELSE tbl[i]]]
    ELSE [ok |-> TRUE,
          users |-> Append(tbl, [id |-> Len(tbl) + 1, name |-> name, email |-> email,
                                 password_hash |-> <<"sha256">> \o password,
                                 subscription |-> "Free", usage_count |-> 5])]

\* INSERT INTO users (name, email, password_hash) ... ; commit
\* sqlite3.IntegrityError -> False and nothing is written
create_user(tbl, name, email, password) ==
    IF EmailTaken(tbl, email)
    THEN [ok |-> FALSE, users |-> tbl]
    ELSE [ok |-> TRUE,
          users |-> Append(tbl, NewRow(tbl, name, email, hash_password(password)))]

----------------------------------------------------------------------------
(* HTTP surface: /register, /login, /health *)

\* a login that returns the fetched row whole
LoginUser_leaky(row) == row

\* the user object of a successful login: user[2], user[4], user[1], user[5]
LoginUser(row) ==
    [email |-> row.email, subscription |-> row.subscription,
     name |-> row.name, usage_count |-> row.usage_count]

register_response(tbl, body) ==
    IF Falsy(body)
    THEN [users |-> tbl,
          resp |-> [status |-> HTTP_BAD_REQUEST, success |-> FALSE,
                    message |-> "No data provided"]]
    ELSE LET name == strip(Get(body.data, "name", <<>>))
             email == strip(Get(body.data, "email", <<>>))
             password == strip(Get(body.data, "password", <<>>))
         IN  IF name = <<>> \/ email = <<>> \/ password = <<>>
             THEN [users |-> tbl,
                   resp |-> [status |-> HTTP_OK, success |-> FALSE,
                             message |-> "All fields are required"]]
             ELSE LET r == create_user(tbl, name, email, password)
                  IN  IF r.ok
                      THEN [users |-> r.users,
                            resp |-> [status |-> HTTP_OK, success |-> TRUE]]
                      ELSE [users |-> r.users,
                            resp |-> [status |-> HTTP_OK, success |-> FALSE,
                                      message |-> "Email already exists"]]

login_response(tbl, body) ==
    IF Falsy(body)
    THEN [status |-> HTTP_BAD_REQUEST, success |-> FALSE, message |-> "No data provided"]
    ELSE LET email == strip(Get(body.data, "email", <<>>))
             password == strip(Get(body.data, "password", <<>>))
             user == get_user(tbl, email)
         IN  IF ~user.found
             THEN [status |-> HTTP_OK, success |-> FALSE, message |-> "User not found"]
             ELSE IF hash_password(password) # user.row.password_hash
             THEN [status |-> HTTP_OK, success |-> FALSE, message |-> "Invalid password"]
             ELSE [status |-> HTTP_OK, success |-> TRUE, user |-> LoginUser(user.row)]

register ==
    /\ req = Idle
    /\ \E body \in {NoBody} \cup { WithBody(d) : d \in RegisterBodies } :
         LET out == register_response(users, body)
         IN  /\ Len(out.users) <= MaxUsers
             /\ req' = [kind |-> "register", body |-> body]
             /\ users' = out.users
             /\ resp' = out.resp
             /\ registered' =
                  IF out.resp.success
                  THEN registered \cup { <<body.data["name"], body.data["email"],
                                          body.data["password"]>> }
                  ELSE registered
    /\ outbound' = 0
    /\ UNCHANGED <<api_key, concVars, scoreVars>>

login ==
    /\ req = Idle
    /\ \E body \in {NoBody} \cup { WithBody(d) : d \in LoginBodies } :
         /\ req' = [kind |-> "login", body |-> body]
         /\ resp' = login_response(users, body)
    /\ outbound' = 0
    /\ UNCHANGED <<users, api_key, registered, concVars, scoreVars>>

health ==
    /\ req = Idle
    /\ req' = [kind |-> "health"]
    /\ resp' = [status |-> HTTP_OK, payload |-> [status |-> "ok",
                    message |-> "Server is running on Vercel"]]
    /\ outbound' = 0
    /\ UNCHANGED <<users, api_key, registered, concVars, scoreVars>>

----------------------------------------------------------------------------
(* Article fetcher *)

DemoArticles ==
    << <<"Breaking news: Sample article about the query">>,
       <<"Latest updates on the topic from various sources">>,
       <<"Verified information from trusted news outlets">> >>

NoArticlesFound == << <<"No detailed articles found for this query">> >>

SourceUnavailable == << <<"Temporary data source unavailable - using demo mode">> >>

\* one element of data['articles']; "" stands for a missing or empty field
Items == [title : {"", "T"}, description : {"", "D"}]

RECURSIVE SeqsUpTo(_, _)
SeqsUpTo(S, n) ==
    IF n = 0 THEN { <<>> }
    ELSE LET shorter == SeqsUpTo(S, n - 1)
         IN  shorter \cup { Append(q, x) : q \in { t \in shorter : Len(t) = n - 1 }, x \in S }

\* what requests.get(url, timeout=10) and r.json() can produce
ProviderOutcomes ==
    { [kind |-> k, items |-> <<>>] : k \in {"non200", "raises", "badjson"} }
      \cup { [kind |-> "ok", items |-> its] : its \in SeqsUpTo(Items, MaxItems) }

NotCalled == [kind |-> "notcalled", items |-> <<>>]

\* f"{a.get('title','')} {a.get('description','')}".strip()
Snippet(a) == <<a.title, " ", a.description>>

\* [ ... for a in data.get('articles', []) if a.get('title') and a.get('description') ]
RECURSIVE Usable(_)
Usable(items) ==
    IF items = <<>> THEN <<>>
    ELSE IF Head(items).title # "" /\ Head(items).description # ""
         THEN <<Snippet(Head(items))>> \o Usable(Tail(items))
         ELSE Usable(Tail(items))

\* a fetcher that tries once more after an exception
requests_made_retry(key, provider) ==
    IF ~key THEN 0 ELSE IF provider.kind = "raises" THEN 2 ELSE 1

\* the number of calls to requests.get made by one get_news_articles call
requests_made(key, provider) == IF key THEN 1 ELSE 0

\* a fetcher that returns the filtered list even when nothing is left in it
get_news_articles_unguarded(key, provider) ==
    IF ~key THEN DemoArticles
    ELSE IF provider.kind = "ok" THEN Usable(provider.items)
    ELSE SourceUnavailable

get_news_articles(key, provider) ==
    IF ~key THEN DemoArticles
    ELSE IF provider.kind = "ok"
         THEN LET articles == Usable(provider.items)
              IN  IF articles # <<>> THEN articles ELSE NoArticlesFound
         ELSE SourceUnavailable

----------------------------------------------------------------------------
(* Similarity scorer *)

RECURSIVE SumSeq(_)
SumSeq(s) == IF s = <<>> THEN 0 ELSE Head(s) + SumSeq(Tail(s))

RECURSIVE MaxSeq(_)
MaxSeq(s) ==
    IF Len(s) = 1 THEN s[1]
    ELSE LET m == MaxSeq(Tail(s)) IN IF Head(s) > m THEN Head(s) ELSE m

Min(a, b) == IF a < b THEN a ELSE b

\* round(conf, 2) of the rational num/den given in hundredths: nearest
\* integer number of hundredths, ties to even
Round2(num, den) ==
    LET q == num \div den
        r == num % den
    IN  IF 2 * r < den THEN q
        ELSE IF 2 * r > den THEN q + 1
        ELSE IF q % 2 = 0 THEN q ELSE q + 1

\* verdict.lower()
Lower(verdict) ==
    CASE verdict = "Likely True" -> "likely true"
      [] verdict = "Uncertain" -> "uncertain"
      [] verdict = "Likely False" -> "likely false"

\* the same chain with >= where the code has >
Judge_ge(sims) ==
    LET n == Len(sims)
        max_sim == MaxSeq(sims)
        sum_sim == SumSeq(sims)
    IN  IF 10 * max_sim >= 4 * SCALE
        THEN [verdict |-> "Likely True",
              conf |-> Round2(Min(max_sim * 10000, 9500 * SCALE), SCALE)]
        ELSE IF 10 * max_sim >= 2 * SCALE
        THEN [verdict |-> "Uncertain",
              conf |-> Round2(Min(max_sim * 8000, 7500 * SCALE), SCALE)]
        ELSE [verdict |-> "Likely False",
              conf |-> Round2(Min((n * SCALE - sum_sim) * 6000, 7000 * n * SCALE),
                              n * SCALE)]

\* the if / elif / else on max_sim and the confidence (in hundredths) rounded
\* to two decimals; sims are in units of 1/SCALE
Judge(sims) ==
    LET n == Len(sims)
        max_sim == MaxSeq(sims)
        sum_sim == SumSeq(sims)
    IN  IF 10 * max_sim > 4 * SCALE
        THEN [verdict |-> "Likely True",
              conf |-> Round2(Min(max_sim * 10000, 9500 * SCALE), SCALE)]
        ELSE IF 10 * max_sim > 2 * SCALE
        THEN [verdict |-> "Uncertain",
              conf |-> Round2(Min(max_sim * 8000, 7500 * SCALE), SCALE)]
        ELSE [verdict |-> "Likely False",
              conf |-> Round2(Min((n * SCALE - sum_sim) * 6000, 7000 * n * SCALE),
                              n * SCALE)]

\* verify_statement after `articles = self.get_news_articles(statement)`
score(statement, articles, tfidf) ==
    IF articles = <<>>
    THEN [verification |-> "Uncertain", confidence |-> 5000, statement |-> statement,
          reason |-> "Limited data available for verification. Please try with a more specific statement.",
          sources |-> << <<"Data source temporarily unavailable">> >>]
    ELSE IF tfidf.raises
    THEN [verification |-> "Error", confidence |-> 0, statement |-> statement,
          reason |-> "Analysis error", sources |-> <<>>]
    ELSE LET j == Judge(tfidf.sims)
         IN  [verification |-> j.verdict, confidence |-> j.conf, statement |-> statement,
              reason |-> [articles |-> Len(articles), verdict |-> Lower(j.verdict)],
              sources |-> SubSeq(articles, 1, Min(SourceCap, Len(articles))),
              articles_analyzed |-> Len(articles)]

verify_statement(statement, key, provider, tfidf) ==
    score(statement, get_news_articles(key, provider), tfidf)

\* similarities explored at the endpoint, and for the scorer on its own
SimSamples == { 1999, 9600 }
SimVals == { 0, 1999, 2000, 2001, 3333, 4000, 4001, 4567, 9500, 9501, SCALE }

RECURSIVE Vectors(_, _)
Vectors(S, n) == IF n = 0 THEN { <<>> } ELSE { Append(v, x) : v \in Vectors(S, n - 1), x \in S }

\* fit_transform + cosine_similarity: one similarity per article, or an exception
TfidfOutcomes(S, n) ==
    { [raises |-> TRUE, sims |-> <<>>] } \cup { [raises |-> FALSE, sims |-> v] : v \in Vectors(S, n) }

----------------------------------------------------------------------------
(* HTTP surface: /verify *)

verify ==
    /\ req = Idle
    /\ \E body \in {NoBody} \cup { WithBody(d) : d \in VerifyBodies } :
         IF Falsy(body)
         THEN /\ req' = [kind |-> "verify", body |-> body, provider |-> NotCalled]
              /\ resp' = [status |-> HTTP_BAD_REQUEST, error |-> "No JSON data provided"]
              /\ outbound' = 0
         ELSE LET claim == strip(Get(body.data, "claim", <<>>))
              IN  IF claim = <<>>
                  THEN /\ req' = [kind |-> "verify", body |-> body, provider |-> NotCalled]
                       /\ resp' = [status |-> HTTP_BAD_REQUEST, error |-> "No claim provided"]
                       /\ outbound' = 0
                  ELSE \E provider \in IF api_key THEN ProviderOutcomes ELSE {NotCalled} :
                         \E tfidf \in TfidfOutcomes(SimSamples,
                                          Len(get_news_articles(api_key, provider))) :
                           /\ req' = [kind |-> "verify", body |-> body,
                                      provider |-> provider, tfidf |-> tfidf]
                           /\ resp' = [status |-> HTTP_OK,
                                       result |-> verify_statement(claim, api_key, provider, tfidf)]
                           /\ outbound' = requests_made(api_key, provider)
    /\ UNCHANGED <<users, api_key, registered, concVars, scoreVars>>

----------------------------------------------------------------------------
(* Sequential request handling *)

ConcIdle ==
    /\ pc = [p \in 1..MaxProcs |-> "off"]
    /\ preq = [p \in 1..MaxProcs |-> NoBody]
    /\ presp = [p \in 1..MaxProcs |-> Idle]
    /\ staged = [p \in 1..MaxProcs |-> <<>>]
    /\ writer = 0

ScoreIdle ==
    /\ s_articles = <<>>
    /\ s_tfidf = [raises |-> TRUE, sims |-> <<>>]
    /\ s_result = Idle

\* after init_db() on a fresh /tmp/users.db and load_dotenv()
Init ==
    /\ users = <<>>
    /\ api_key \in BOOLEAN
    /\ req = Idle
    /\ resp = Idle
    /\ outbound = 0
    /\ registered = {}
    /\ ConcIdle
    /\ ScoreIdle

\* the response leaves the server, which then waits for the next request
respond ==
    /\ req # Idle
    /\ req' = Idle
    /\ resp' = Idle
    /\ outbound' = 0
    /\ UNCHANGED <<users, api_key, registered, concVars, scoreVars>>

Next == register \/ login \/ verify \/ health \/ respond

Spec == Init /\ [][Next]_vars

----------------------------------------------------------------------------
(* Concurrent /register requests: one process per request, interleaved at  *)
(* the sqlite statements.  A writer holds the database write lock from its *)
(* INSERT until its commit, or until its connection is dropped.            *)

Procs == 1..MaxProcs

ConcBodies ==
    {NoBody} \cup
    { WithBody(d) : d \in Bodies({"name", "email", "password"},
                                 [name |-> { <<"n">> },
                                  email |-> { <<"e">>, <<" ", "e">>, <<"f">> },
                                  password |-> { <<"p">>, <<"q">> }]) }

p_name(p) == strip(Get(preq[p].data, "name", <<>>))
p_email(p) == strip(Get(preq[p].data, "email", <<>>))
p_password(p) == strip(Get(preq[p].data, "password", <<>>))

\* register, lines 181-190: body and field validation
r_validate(p) ==
    /\ pc[p] = "start"
    /\ IF Falsy(preq[p])
       THEN /\ pc' = [pc EXCEPT ![p] = "done"]
            /\ presp' = [presp EXCEPT ![p] = [status |-> HTTP_BAD_REQUEST, success |-> FALSE,
                                             message |-> "No data provided"]]
       ELSE IF p_name(p) = <<>> \/ p_email(p) = <<>> \/ p_password(p) = <<>>
       THEN /\ pc' = [pc EXCEPT ![p] = "done"]
            /\ presp' = [presp EXCEPT ![p] = [status |-> HTTP_OK, success |-> FALSE,
                                             message |-> "All fields are required"]]
       ELSE /\ pc' = [pc EXCEPT ![p] = "insert"]
            /\ UNCHANGED presp
    /\ UNCHANGED <<preq, staged, writer, userVars, scoreVars>>

\* a store without the single-writer lock
LockFree_always(w) == TRUE

\* sqlite admits one writer at a time: an INSERT proceeds only when no other
\* connection holds the write lock
LockFree(w) == w = 0

\* create_user, lines 60-63: the INSERT statement takes the write lock and
\* either stages the row or raises sqlite3.IntegrityError
r_insert(p) ==
    /\ pc[p] = "insert"
    /\ LockFree(writer)
    /\ writer' = p
    /\ IF EmailTaken(users, p_email(p))
       THEN /\ pc' = [pc EXCEPT ![p] = "integrity"]
            /\ UNCHANGED staged
       ELSE /\ pc' = [pc EXCEPT ![p] = "commit"]
            /\ staged' = [staged EXCEPT ![p] =
                            <<NewRow(users, p_name(p), p_email(p),
                                     hash_password(p_password(p)))>>]
    /\ UNCHANGED <<preq, presp, userVars, scoreVars>>

\* create_user, lines 64-66, and register, line 193
r_commit(p) ==
    /\ pc[p] = "commit"
    /\ users' = users \o staged[p]
    /\ staged' = [staged EXCEPT ![p] = <<>>]
    /\ writer' = 0
    /\ pc' = [pc EXCEPT ![p] = "done"]
    /\ presp' = [presp EXCEPT ![p] = [status |-> HTTP_OK, success |-> TRUE]]
    /\ UNCHANGED <<preq, api_key, req, resp, outbound, registered, scoreVars>>

\* create_user, lines 67-68, and register, line 195: the connection goes out
\* of scope uncommitted, which releases the lock
r_integrity(p) ==
    /\ pc[p] = "integrity"
    /\ writer' = 0
    /\ pc' = [pc EXCEPT ![p] = "done"]
    /\ presp' = [presp EXCEPT ![p] = [status |-> HTTP_OK, success |-> FALSE,
                                     message |-> "Email already exists"]]
    /\ UNCHANGED <<preq, staged, userVars, scoreVars>>

\* the INSERT waits for a lock another writer holds; when the wait exceeds the
\* connection's timeout sqlite3.OperationalError escapes create_user and is
\* answered by register's except clause, lines 196-197
r_busy(p) ==
    /\ pc[p] = "insert"
    /\ writer \notin {0, p}
    /\ pc' = [pc EXCEPT ![p] = "done"]
    /\ presp' = [presp EXCEPT ![p] = [status |-> HTTP_OK, success |-> FALSE,
                                     message |-> "Registration error"]]
    /\ UNCHANGED <<preq, staged, writer, userVars, scoreVars>>

UsersIdle ==
    /\ users = <<>>
    /\ api_key = FALSE
    /\ req = Idle
    /\ resp = Idle
    /\ outbound = 0
    /\ registered = {}

InitConc ==
    /\ UsersIdle
    /\ pc = [p \in Procs |-> "start"]
    /\ preq \in [Procs -> ConcBodies]
    /\ presp = [p \in Procs |-> Idle]
    /\ staged = [p \in Procs |-> <<>>]
    /\ writer = 0
    /\ ScoreIdle

NextConc ==
    \E p \in Procs :
        r_validate(p) \/ r_insert(p) \/ r_commit(p) \/ r_integrity(p) \/ r_busy(p)

SpecConc == InitConc /\ [][NextConc]_vars

----------------------------------------------------------------------------
(* The scorer on its own: verify_statement from line 105 on, applied to    *)
(* every article list and every outcome of the vectoriser.                 *)

ArticleList(n) == [i \in 1..n |-> <<"article", i>>]

Statement == <<"c">>

InitScore ==
    /\ UsersIdle
    /\ ConcIdle
    /\ s_articles \in { ArticleList(n) : n \in 0..MaxArticles }
    /\ s_tfidf \in TfidfOutcomes(SimVals, Len(s_articles))
    /\ s_result = Idle

apply_score ==
    /\ s_result = Idle
    /\ s_result' = score(Statement, s_articles, s_tfidf)
    /\ UNCHANGED <<s_articles, s_tfidf, userVars, concVars>>

NextScore == apply_score

SpecScore == InitScore /\ [][NextScore]_vars

----------------------------------------------------------------------------
(* Properties *)

RowsWith(email) == { i \in 1..Len(users) : users[i].email = email }

IsReq(kind) == req.kind = kind

\* the handler's local variables after .strip(), for a request with a body
Field(key) == strip(Get(req.body.data, key, <<>>))

\* C1: in every reachable state the users table holds at most one row per
\* email: no two rows share the same email value.
C1_EmailUnique ==
    \A i, j \in 1..Len(users) : users[i].email = users[j].email => i = j

\* a second register for a stored email was answered while the table is full
C1_Witness ==
    /\ Len(users) = MaxUsers
    /\ IsReq("register")
    /\ "message" \in DOMAIN resp
    /\ resp.message = "Email already exists"

\* C2: a register whose name, email and password (the handler's values, after
\* trimming) are all non-empty and whose email already has a row makes
\* create_user return False, is answered success:false with message
\* 'Email already exists', and leaves the table exactly as it was.
C2_Step ==
    (/\ req'.kind = "register"
     /\ ~Falsy(req'.body)
     /\ (Field("name") # <<>>)'
     /\ (Field("email") # <<>>)'
     /\ (Field("password") # <<>>)'
     /\ \E i \in 1..Len(users) : users[i].email = Field("email")')
    => /\ ~create_user(users, Field("name")', Field("email")', Field("password")').ok
       /\ resp'.status = HTTP_OK
       /\ resp'.success = FALSE
       /\ resp'.message = "Email already exists"
       /\ users' = users

C2_DuplicateRejected == [][C2_Step]_vars

\* a duplicate register carrying another name and password than the stored row
C2_Witness ==
    /\ IsReq("register")
    /\ "message" \in DOMAIN resp
    /\ resp.message = "Email already exists"
    /\ \E i \in RowsWith(Field("email")) :
         /\ users[i].name # Field("name")
         /\ users[i].password_hash # <<"sha256">> \o Field("password")

\* a login request that carries exactly this email and this password
LoginSent(E, Q) ==
    /\ IsReq("login")
    /\ req.body.has_body
    /\ DOMAIN req.body.data = {"email", "password"}
    /\ req.body.data["email"] = E
    /\ req.body.data["password"] = Q

\* the data of the user registered by the request t = <<name, email, password>>
UserData(t) ==
    [email |-> strip(t[2]), subscription |-> "Free",
     name |-> strip(t[1]), usage_count |-> 5]

\* C3 as stated: after a successful register with email E and password P, a
\* login with E and P succeeds with that user's data, and a login with E and
\* any password string other than P fails.
C3_AnyOtherPasswordFails ==
    \A t \in registered : \A Q \in PasswordInputs :
        LoginSent(t[2], Q) =>
            IF Q = t[3]
            THEN resp.success /\ resp.user = UserData(t)
            ELSE ~resp.success

\* C3 as amended: after a successful register with email E and password P, a
\* login with E and P succeeds with that user's data, and a login with E and
\* any password that still differs from P once both are trimmed of
\* surrounding whitespace fails.
C3_RoundTrip ==
    \A t \in registered : \A Q \in PasswordInputs :
        LoginSent(t[2], Q) =>
            /\ Q = t[3] => resp.success /\ resp.user = UserData(t)
            /\ strip(Q) # strip(t[3]) => ~resp.success

\* a user registered with an email sent with surrounding whitespace has just
\* logged in with the same email and password as sent at registration
C3_Witness ==
    \E t \in registered :
        /\ LoginSent(t[2], t[3])
        /\ resp.success
        /\ t[2] # strip(t[2])

\* a required field is missing or empty, or there is no body at all
Lacks(key) == Get(req.body.data, key, <<>>) = <<>>

InvalidRequest ==
    \/ IsReq("verify") /\ (Falsy(req.body) \/ Lacks("claim"))
    \/ IsReq("register")
         /\ (Falsy(req.body) \/ Lacks("name") \/ Lacks("email") \/ Lacks("password"))
    \/ IsReq("login") /\ (Falsy(req.body) \/ Lacks("email") \/ Lacks("password"))

\* C4: verify, register and login answer a request that has no body, or in
\* which a required field is missing or empty, with a 4xx status and an error
\* object carrying a message, and leave the users table unchanged.
C4_InvalidInputIs4xx ==
    [][ InvalidRequest' =>
          /\ resp'.status \in 400..499
          /\ ("message" \in DOMAIN resp' \/ "error" \in DOMAIN resp')
          /\ users' = users ]_vars

\* C5: for a login request whose body passed the body check: when no row has
\* the given email the answer is success:false 'User not found'; when a row
\* exists and the hash of the supplied password differs from the stored hash
\* the answer is success:false 'Invalid password'; and no login response
\* carries the stored password hash.
C5_LoginOutcomes ==
    (IsReq("login") /\ ~Falsy(req.body)) =>
        /\ RowsWith(Field("email")) = {} =>
             /\ resp.success = FALSE
             /\ resp.message = "User not found"
        /\ \A i \in RowsWith(Field("email")) :
             users[i].password_hash # <<"sha256">> \o Field("password") =>
                 /\ resp.success = FALSE
                 /\ resp.message = "Invalid password"
        /\ "password_hash" \notin DOMAIN resp
        /\ "user" \in DOMAIN resp =>
             /\ DOMAIN resp.user = {"email", "subscription", "name", "usage_count"}
             /\ \A i \in 1..Len(users) :
                  /\ resp.user.email # users[i].password_hash
                  /\ resp.user.name # users[i].password_hash

\* all three outcomes need a stored user; this is the wrong-password one
C5_Witness ==
    /\ IsReq("login")
    /\ "message" \in DOMAIN resp
    /\ resp.message = "Invalid password"
    /\ Len(users) = MaxUsers

\* the reference table of C6, in hundredths as the exact rational num/den
RefVerdict(sims) ==
    IF 10 * MaxSeq(sims) > 4 * SCALE THEN "Likely True"
    ELSE IF 10 * MaxSeq(sims) > 2 * SCALE THEN "Uncertain"
    ELSE "Likely False"

RefNum(sims) ==
    CASE RefVerdict(sims) = "Likely True" -> Min(MaxSeq(sims) * 10000, 9500 * SCALE) * Len(sims)
      [] RefVerdict(sims) = "Uncertain" -> Min(MaxSeq(sims) * 8000, 7500 * SCALE) * Len(sims)
      [] RefVerdict(sims) = "Likely False" ->
            Min((Len(sims) * SCALE - SumSeq(sims)) * 6000, 7000 * Len(sims) * SCALE)

RefDen(sims) == Len(sims) * SCALE

Abs(x) == IF x < 0 THEN -x ELSE x

Scored == s_result # Idle

\* C6 as stated: an empty article list gives 'Uncertain' with 50.0; otherwise,
\* for every similarity vector, the verdict is the table's and the confidence
\* equals the table's formula; the confidence is within [0,100].
C6_ExactTable ==
    Scored =>
        /\ s_articles = <<>> =>
             s_result.verification = "Uncertain" /\ s_result.confidence = 5000
        /\ (s_articles # <<>> /\ ~s_tfidf.raises) =>
             /\ s_result.verification = RefVerdict(s_tfidf.sims)
             /\ s_result.confidence * RefDen(s_tfidf.sims) = RefNum(s_tfidf.sims)
        /\ s_result.confidence \in 0..10000

\* C6 as amended: an empty article list gives 'Uncertain' with 50.0; otherwise,
\* for every similarity vector, the verdict is the table's and the confidence
\* is the table's formula rounded to two decimal places; the confidence is
\* within [0,100].
C6_RoundedTable ==
    Scored =>
        /\ s_articles = <<>> =>
             s_result.verification = "Uncertain" /\ s_result.confidence = 5000
        /\ (s_articles # <<>> /\ ~s_tfidf.raises) =>
             /\ s_result.verification = RefVerdict(s_tfidf.sims)
             /\ 2 * Abs(s_result.confidence * RefDen(s_tfidf.sims) - RefNum(s_tfidf.sims))
                  <= RefDen(s_tfidf.sims)
        /\ s_result.confidence \in 0..10000

\* a 'Likely False' result whose confidence had to be rounded
C6_Witness ==
    /\ Scored
    /\ s_articles # <<>>
    /\ ~s_tfidf.raises
    /\ s_result.verification = "Likely False"
    /\ s_result.confidence * RefDen(s_tfidf.sims) # RefNum(s_tfidf.sims)

\* C7: whatever the search provider does, get_news_articles returns a
\* non-empty list, and a verify request with a non-empty claim is answered
\* with status 200 and a result, never with the {error} object.
C7_FetchNeverFails ==
    (IsReq("verify") /\ ~Falsy(req.body) /\ Field("claim") # <<>>) =>
        /\ get_news_articles(api_key, req.provider) # <<>>
        /\ resp.status = HTTP_OK
        /\ "error" \notin DOMAIN resp
        /\ "result" \in DOMAIN resp
        /\ resp.result.verification # "Error" =>
             /\ "articles_analyzed" \in DOMAIN resp.result
             /\ resp.result.articles_analyzed >= 1
             /\ resp.result.sources # <<>>

\* the provider answered 200 with items that all lack a title or a description
C7_Witness ==
    /\ IsReq("verify")
    /\ req.provider.kind = "ok"
    /\ Len(req.provider.items) = MaxItems
    /\ Usable(req.provider.items) = <<>>
    /\ resp.status = HTTP_OK
    /\ "result" \in DOMAIN resp
    /\ resp.result.verification # "Error"

\* C8: no step updates or deletes a row: login, verify and health leave the
\* table unchanged, and register changes it only by adding one new row, so
\* every row keeps the values it was created with.
C8_Step ==
    /\ Len(users') \in { Len(users), Len(users) + 1 }
    /\ \A i \in 1..Len(users) : users'[i] = users[i]
    /\ req'.kind \in {"login", "verify", "health"} => users' = users
    /\ users' # users => req'.kind = "register"

C8_RowsAreNeverChanged == [][C8_Step]_vars

\* a full table, and a duplicate register with another name just answered
C8_Witness ==
    /\ Len(users) = MaxUsers
    /\ IsReq("register")
    /\ ~Falsy(req.body)
    /\ Field("name") # <<>>
    /\ Field("password") # <<>>
    /\ \E i \in RowsWith(Field("email")) : users[i].name # Field("name")

\* C9 (concurrent registers): register requests with all fields non-empty
Valid(p) ==
    /\ ~Falsy(preq[p])
    /\ p_name(p) # <<>>
    /\ p_email(p) # <<>>
    /\ p_password(p) # <<>>

SameEmail(p) == { q \in Procs : Valid(q) /\ p_email(q) = p_email(p) }

AllDone == \A p \in Procs : pc[p] = "done"

\* the requests in flight are two or more registers for one and the same email
\* (requests refused at validation aside)
OneEmailRace ==
    /\ Cardinality({ p \in Procs : Valid(p) }) >= 2
    /\ \A p, q \in Procs : (Valid(p) /\ Valid(q)) => p_email(p) = p_email(q)

\* C9: when two or more concurrent register requests carry the same email
\* (all fields non-empty), then under every interleaving, once all are
\* answered, exactly one of them got success:true, every other one
\* success:false, and the table holds exactly one row for that email.  Whatever
\* else is in flight, no email ever has two winners or two rows.
C9_OneWinner ==
    /\ \A p \in Procs :
         Valid(p) =>
             /\ Cardinality({ q \in SameEmail(p) :
                                pc[q] = "done" /\ presp[q].success }) <= 1
             /\ Cardinality(RowsWith(p_email(p))) <= 1
    /\ (AllDone /\ OneEmailRace) =>
         \A p \in Procs :
             Valid(p) =>
                 /\ Cardinality({ q \in SameEmail(p) : presp[q].success }) = 1
                 /\ \A q \in SameEmail(p) : presp[q].success \in BOOLEAN
                 /\ Cardinality(RowsWith(p_email(p))) = 1

\* two requests for one email raced: one was refused by the UNIQUE constraint
C9_Witness ==
    /\ AllDone
    /\ \E p, q \in Procs :
         /\ p # q
         /\ q \in SameEmail(p)
         /\ presp[p].success
         /\ presp[q].message = "Email already exists"

\* a verify request that reached verify_statement
ReachedVerifier == IsReq("verify") /\ "result" \in DOMAIN resp

\* C10 as stated: each verification call makes exactly one outbound attempt
\* to the search provider, whatever the provider's response.
C10_ExactlyOneAttempt == ReachedVerifier => outbound = 1

\* C10 as amended: each verification call makes exactly one outbound attempt,
\* whatever the provider's response, when a provider credential is
\* configured, and none when it is not; it never makes a second attempt.
C10_OneAttemptWithKey ==
    ReachedVerifier =>
        /\ api_key => outbound = 1
        /\ ~api_key => outbound = 0

\* the one attempt raised, and the call was answered from the fallback list
C10_Witness ==
    /\ ReachedVerifier
    /\ api_key
    /\ req.provider.kind = "raises"
    /\ outbound = 1
    /\ resp.result.verification # "Error"
    /\ resp.result.sources = SourceUnavailable

====
